---- MODULE Spec2Model ----
(***************************************************************************)
(* State-machine model of pkgcheck's package directory checks              *)
(* (src/pkgcheck/checks/pkgdir.py): PkgDirCheck.feed, a generator that     *)
(* lists the package directory, walks its files/ subtree and reports       *)
(* duplicates, and EqualVersionsCheck.feed.                                *)
(*                                                                         *)
(* Strings are sequences of code points, so that set(filename), sorted()   *)
(* and str.endswith() are computed as Python computes them.  The file      *)
(* system, the gitignored predicate, the digests and the consumer of the   *)
(* generator are the environment: each loop iteration draws the entry the  *)
(* listing returns next from a finite pool.  os.walk has pruned the        *)
(* directories of ignore_dirs before their files are drawn, so the pools   *)
(* hold no file below cvs, .svn or .bzr; listdir, os.stat and os.lstat     *)
(* succeed in every scan of the model.                                     *)
(***************************************************************************)
EXTENDS Integers, Sequences, FiniteSets, TLC

VARIABLES
    pc,              \* position of PkgDirCheck.feed
    gentoo_repo,     \* self.options.gentoo_repo
    listed,          \* entries of listdir(pkg_path) the first loop has reached
    mismatched,      \* feed's local lists
    invalid,
    unknown,
    walked,          \* files of os.walk(files/) the second loop has reached
    files_by_size,   \* defaultdict(list), as its items() in insertion order
    files_by_digest, \* defaultdict(list), as its items() in insertion order
    chksum,          \* the digests get_chksums has returned, per file content
    chksum_calls,    \* the paths get_chksums has been called on, in order
    findings,        \* the results the consumer has received from feed
    ev_pc,           \* position of EqualVersionsCheck.feed
    pkgset,          \* its argument
    sorted_pkgset,
    ev_i,
    equal_versions,  \* defaultdict(set), as its items() in insertion order
    ev_findings

vars == <<pc, gentoo_repo, listed, mismatched, invalid, unknown, walked,
          files_by_size, files_by_digest, chksum, chksum_calls, findings,
          ev_pc, pkgset, sorted_pkgset, ev_i, equal_versions, ev_findings>>

pkgdir_vars == <<pc, gentoo_repo, listed, mismatched, invalid, unknown, walked,
                 files_by_size, files_by_digest, chksum, chksum_calls, findings>>

ev_vars == <<ev_pc, pkgset, sorted_pkgset, ev_i, equal_versions, ev_findings>>

-----------------------------------------------------------------------------
(* Bounds of the model.                                                    *)

MaxDirEntries == 2
MinorFiles == 2
MaxFiles == 3
MinorDirEntries == 1
MaxDupFiles == 4
MaxPkgs == 3

-----------------------------------------------------------------------------
(* Python's str, list and dict operations.                                 *)

Range(s) == {s[i] : i \in DOMAIN s}

\* set(filename)
Chars(s) == Range(s)

\* a < b on str (and on any sequence of integers): lexicographic
RECURSIVE StrLess(_, _)
StrLess(a, b) ==
    IF b = <<>> THEN FALSE
    ELSE IF a = <<>> THEN TRUE
    ELSE IF a[1] # b[1] THEN a[1] < b[1]
    ELSE StrLess(Tail(a), Tail(b))

\* sorted(S) for a set of characters
RECURSIVE SortedChars(_)
SortedChars(S) ==
    IF S = {} THEN <<>>
    ELSE LET m == CHOOSE x \in S : \A y \in S : x <= y
         IN <<m>> \o SortedChars(S \ {m})

\* insertion of one string into a sorted list of strings, after its equals
RECURSIVE InsertStr(_, _)
InsertStr(x, s) ==
    IF s = <<>> THEN <<x>>
    ELSE IF StrLess(x, s[1]) THEN <<x>> \o s
    ELSE <<s[1]>> \o InsertStr(x, Tail(s))

UnsortedStrs(s) == s

\* sorted(list of str)
RECURSIVE SortedStrs(_)
SortedStrs(s) ==
    IF s = <<>> THEN <<>>
    ELSE InsertStr(s[Len(s)], SortedStrs(SubSeq(s, 1, Len(s) - 1)))

\* str.endswith
EndsWith(s, suffix) ==
    /\ Len(s) >= Len(suffix)
    /\ SubSeq(s, Len(s) - Len(suffix) + 1, Len(s)) = suffix

\* pjoin(a, b)
pjoin(a, b) == a \o <<47>> \o b

\* key in d, for a dict kept as its items
DictHas(d, key) == \E i \in DOMAIN d : d[i].key = key

\* defaultdict(list): d[key].append(x)
DictAppend(d, key, x) ==
    IF DictHas(d, key)
    THEN [i \in DOMAIN d |->
            IF d[i].key = key THEN [key |-> key, val |-> Append(d[i].val, x)]
            ELSE d[i]]
    ELSE Append(d, [key |-> key, val |-> <<x>>])

-----------------------------------------------------------------------------
(* Module constants and the result classes.                                *)

allowed_filename_chars_set ==
    (97 .. 122) \cup (65 .. 90) \cup (48 .. 57) \cup {46, 45, 95, 43, 58}

ebuild_ext == <<46,101,98,117,105,108,100>>                    \* '.ebuild'
FilesDir == <<102,105,108,101,115>>                            \* 'files'
KnownPkgDirEntries ==
    { <<77,97,110,105,102,101,115,116>>,                       \* 'Manifest'
      <<109,101,116,97,100,97,116,97,46,120,109,108>>,         \* 'metadata.xml'
      FilesDir }

\* os.path.basename(pkg_path)
PkgDirName == <<98,97,114>>                                    \* 'bar'

SizeLimit == 20480

Result(kind, filename, chars, size, names) ==
    [kind |-> kind, filename |-> filename, chars |-> chars, size |-> size,
     names |-> names]

ExecutableFile(filename) == Result("ExecutableFile", filename, <<>>, 0, <<>>)
BannedCharacter(filename, chars) ==
    Result("BannedCharacter", filename, chars, 0, <<>>)
InvalidUTF8(filename) == Result("InvalidUTF8", filename, <<>>, 0, <<>>)
EmptyFile(filename) == Result("EmptyFile", filename, <<>>, 0, <<>>)
SizeViolation(filename, size) ==
    Result("SizeViolation", filename, <<>>, size, <<>>)
MismatchedPN(ebuilds) == Result("MismatchedPN", <<>>, <<>>, 0, ebuilds)
InvalidPN(ebuilds) == Result("InvalidPN", <<>>, <<>>, 0, ebuilds)
UnknownPkgDirEntry(filenames) ==
    Result("UnknownPkgDirEntry", <<>>, <<>>, 0, filenames)
DuplicateFiles(files) == Result("DuplicateFiles", <<>>, <<>>, 0, files)

\* st_mode & 0o111
ExecBits(mode) ==
    (mode \div 64) % 2 = 1 \/ (mode \div 8) % 2 = 1 \/ mode % 2 = 1

\* set(filename) - allowed_filename_chars_set
banned_chars(filename) == Chars(filename) \ allowed_filename_chars_set

-----------------------------------------------------------------------------
(* atom_cls(f'={pkg.category}/{pkg_name}'): the package name of the atom,  *)
(* or MalformedAtom.  The name is split at the first '-' that a digit      *)
(* follows; the package part is letters, digits, '+', '_' and '-', the     *)
(* version part digits, lower-case letters, '.', '_' and '-'.              *)

MalformedAtom == <<>>

IsDigit(c) == c \in 48 .. 57

VersionSplits(pkg_name) ==
    {i \in 2 .. Len(pkg_name) - 1 : pkg_name[i] = 45 /\ IsDigit(pkg_name[i + 1])}

atom_package(pkg_name) ==
    IF VersionSplits(pkg_name) = {} THEN MalformedAtom
    ELSE LET i == CHOOSE k \in VersionSplits(pkg_name) :
                      \A m \in VersionSplits(pkg_name) : k <= m
             pn == SubSeq(pkg_name, 1, i - 1)
             pv == SubSeq(pkg_name, i + 1, Len(pkg_name))
         IN IF /\ Chars(pn) \subseteq
                    (97 .. 122) \cup (65 .. 90) \cup (48 .. 57) \cup {43, 95, 45}
               /\ pn[1] # 45 /\ pn[1] # 43
               /\ Chars(pv) \subseteq (97 .. 122) \cup (48 .. 57) \cup {46, 95, 45}
            THEN pn
            ELSE MalformedAtom

-----------------------------------------------------------------------------
(* The environment: what listdir, os.walk, lstat, open, gitignored and     *)
(* get_chksums can return.                                                 *)

\* One entry of listdir(pkg_path): its name, gitignored(path),
\* os.path.isfile(path), os.stat(path).st_mode, whether its first 8192 bytes
\* decode as UTF-8 and whether open(path) succeeds.
DirEntry(filename, ignored, isfile, mode, utf8, readable) ==
    [filename |-> filename, ignored |-> ignored, isfile |-> isfile,
     mode |-> mode, utf8 |-> utf8, readable |-> readable]

\* One file of os.walk(files/): root[pkg_path_len:], its name,
\* gitignored(path), S_ISREG(st_mode), st_mode, its content (its size and
\* which bytes of that size) and whether it can be opened for reading.
FileEntry(base_dir, filename, ignored, isreg, mode, content, readable) ==
    [base_dir |-> base_dir, filename |-> filename, ignored |-> ignored,
     isreg |-> isreg, mode |-> mode, content |-> content,
     readable |-> readable]

st_size(f) == f.content[1]

\* pjoin(base_dir, filename), the path relative to the package directory
RelPath(f) == pjoin(f.base_dir, f.filename)

\* os.walk is top-down: the files of files/ come before those of files/s
WalkDirs == << FilesDir, <<102,105,108,101,115,47,115>> >>
WalkRank(base_dir) == CHOOSE i \in DOMAIN WalkDirs : WalkDirs[i] = base_dir

\* the entry of a walked path
FileAt(path) == CHOOSE f \in Range(walked) : RelPath(f) = path

-----------------------------------------------------------------------------
(* PkgDirCheck.feed, first loop: one iteration over listdir(pkg_path).     *)

\* what one step of the generator can come to: the results the consumer
\* receives, where feed is afterwards, and what the step appended
Outcome(ys, next_pc, mm, inv, unk) ==
    [ys |-> ys, pc |-> next_pc, mismatched |-> mm, invalid |-> inv,
     unknown |-> unk]

\* the consumer stops draining after any result of the step
Stopped(ys) ==
    {Outcome(SubSeq(ys, 1, j), "stopped", <<>>, <<>>, <<>>) : j \in 1 .. Len(ys)}

NeverIgnored(e) == FALSE

\* self.gitignored(path)
gitignored(e) == e.ignored

EntryExecutable(e) ==
    IF e.isfile /\ ExecBits(e.mode) THEN <<ExecutableFile(e.filename)>> ELSE <<>>

BannedCheckUnsorted(path, filename) ==
    IF banned_chars(filename) # {}
    THEN <<BannedCharacter(path,
               SelectSeq(filename, LAMBDA c : c \notin allowed_filename_chars_set))>>
    ELSE <<>>

BannedCheck(path, filename) ==
    IF banned_chars(filename) # {}
    THEN <<BannedCharacter(path, SortedChars(banned_chars(filename)))>>
    ELSE <<>>

\* open(path, mode='rb') raises OSError
OpenRaises(e) == ~e.isfile \/ ~e.readable

\* f.read(8192).decode() raises UnicodeDecodeError
DecodeCheck(e) == IF e.utf8 THEN <<>> ELSE <<InvalidUTF8(e.filename)>>

pkg_name_of(filename) == SubSeq(filename, 1, Len(filename) - Len(ebuild_ext))

ListEntryOutcomes(e) ==
    IF gitignored(e) THEN {Outcome(<<>>, "listing", <<>>, <<>>, <<>>)}
    ELSE
    LET pre == EntryExecutable(e) \o BannedCheck(e.filename, e.filename)
        pkg_name == pkg_name_of(e.filename)
        pn == atom_package(pkg_name)
    IN IF EndsWith(e.filename, ebuild_ext)
       THEN IF OpenRaises(e)
            THEN {Outcome(pre, "aborted", <<>>, <<>>, <<>>)} \cup Stopped(pre)
            ELSE {Outcome(pre \o DecodeCheck(e), "listing",
                          IF pn # MalformedAtom /\ pn # PkgDirName
                              THEN <<pkg_name>> ELSE <<>>,
                          IF pn = MalformedAtom THEN <<pkg_name>> ELSE <<>>,
                          <<>>)}
                 \cup Stopped(pre \o DecodeCheck(e))
       ELSE {Outcome(pre, "listing", <<>>, <<>>,
                     IF gentoo_repo /\ e.filename \notin KnownPkgDirEntries
                         THEN <<e.filename>> ELSE <<>>)}
            \cup Stopped(pre)

ListEntry(e, max) ==
    /\ pc = "listing"
    /\ Len(listed) < max
    /\ \A i \in DOMAIN listed : listed[i].filename # e.filename
    /\ listed' = Append(listed, e)
    /\ \E o \in ListEntryOutcomes(e) :
          /\ findings' = findings \o o.ys
          /\ pc' = o.pc
          /\ mismatched' = mismatched \o o.mismatched
          /\ invalid' = invalid \o o.invalid
          /\ unknown' = unknown \o o.unknown
    /\ UNCHANGED <<gentoo_repo, walked, files_by_size, files_by_digest,
                   chksum, chksum_calls>>
    /\ UNCHANGED ev_vars

\* after the loop: the aggregate results of the listing
AggregatesUnconditional(mm, inv, unk) ==
    <<MismatchedPN(SortedStrs(mm)), InvalidPN(SortedStrs(inv)),
      UnknownPkgDirEntry(SortedStrs(unk))>>

Aggregates(mm, inv, unk) ==
    (IF mm # <<>> THEN <<MismatchedPN(SortedStrs(mm))>> ELSE <<>>)
    \o (IF inv # <<>> THEN <<InvalidPN(SortedStrs(inv))>> ELSE <<>>)
    \o (IF unk # <<>> THEN <<UnknownPkgDirEntry(SortedStrs(unk))>> ELSE <<>>)

EmitAggregates ==
    /\ pc = "listing"
    /\ \E o \in {Outcome(Aggregates(mismatched, invalid, unknown), "walking",
                         <<>>, <<>>, <<>>)}
                \cup Stopped(Aggregates(mismatched, invalid, unknown)) :
          /\ findings' = findings \o o.ys
          /\ pc' = o.pc
    /\ UNCHANGED <<gentoo_repo, listed, mismatched, invalid, unknown, walked,
                   files_by_size, files_by_digest, chksum, chksum_calls>>
    /\ UNCHANGED ev_vars

-----------------------------------------------------------------------------
(* PkgDirCheck.feed, second loop: one file of os.walk(pjoin(pkg_path,      *)
(* 'files')).                                                              *)

\* what one iteration can come to: the results received, where feed is
\* afterwards, and whether files_by_size[st_size].append(path) was reached
WalkOutcome(ys, next_pc, sized) == [ys |-> ys, pc |-> next_pc, sized |-> sized]

FileExecutable(f) ==
    IF ExecBits(f.mode) THEN <<ExecutableFile(RelPath(f))>> ELSE <<>>

SizeCheckAtLeast(f) ==
    IF st_size(f) >= SizeLimit
    THEN <<SizeViolation(RelPath(f), st_size(f))>> ELSE <<>>

SizeCheck(f) ==
    IF st_size(f) > SizeLimit
    THEN <<SizeViolation(RelPath(f), st_size(f))>> ELSE <<>>

\* the branch on st_size == 0: grouped by size or not
GroupsEmpty(f) == TRUE

GroupsBySize(f) == st_size(f) # 0

\* the results of the iteration after the executable check
FileChecks(f) ==
    (IF GroupsBySize(f) THEN SizeCheck(f) ELSE <<EmptyFile(RelPath(f))>>)
    \o BannedCheck(RelPath(f), f.filename)

WalkFileOutcomes(f) ==
    IF gitignored(f) \/ ~f.isreg THEN {WalkOutcome(<<>>, "walking", FALSE)}
    ELSE LET ys1 == FileExecutable(f)
             ys2 == FileChecks(f)
         IN {WalkOutcome(ys1 \o ys2, "walking", GroupsBySize(f))}
            \cup {WalkOutcome(SubSeq(ys1, 1, j), "stopped", FALSE) :
                     j \in 1 .. Len(ys1)}
            \cup {WalkOutcome(ys1 \o SubSeq(ys2, 1, j), "stopped",
                              GroupsBySize(f)) : j \in 1 .. Len(ys2)}

WalkFile(f, max) ==
    /\ pc = "walking"
    /\ Len(walked) < max
    /\ \A i \in DOMAIN walked :
          /\ RelPath(walked[i]) # RelPath(f)
          /\ WalkRank(walked[i].base_dir) <= WalkRank(f.base_dir)
    /\ walked' = Append(walked, f)
    /\ \E o \in WalkFileOutcomes(f) :
          /\ findings' = findings \o o.ys
          /\ pc' = o.pc
          /\ files_by_size' =
                IF o.sized THEN DictAppend(files_by_size, st_size(f), RelPath(f))
                ELSE files_by_size
    /\ UNCHANGED <<gentoo_repo, listed, mismatched, invalid, unknown,
                   files_by_digest, chksum, chksum_calls>>
    /\ UNCHANGED ev_vars

\* os.walk is exhausted
EndWalk ==
    /\ pc = "walking"
    /\ pc' = "hashing"
    /\ UNCHANGED <<gentoo_repo, listed, mismatched, invalid, unknown, walked,
                   files_by_size, files_by_digest, chksum, chksum_calls,
                   findings>>
    /\ UNCHANGED ev_vars

-----------------------------------------------------------------------------
(* PkgDirCheck.feed, duplicate detection.                                  *)

HashesEveryBucket(files) == TRUE

\* if len(files) > 1
HashesBucket(files) == Len(files) > 1

\* the paths the loops over files_by_size.items() call get_chksums on, in order
RECURSIVE HashList(_)
HashList(d) ==
    IF d = <<>> THEN <<>>
    ELSE (IF HashesBucket(d[1].val) THEN d[1].val ELSE <<>>) \o HashList(Tail(d))

\* get_chksums(path, 'sha256')[0] is a function of the file's content; the
\* digest of a content not hashed before is any digest already returned or
\* a new one (digests are numbered in the order they first appear)
DigestChoices(content) ==
    IF content \in DOMAIN chksum THEN {chksum[content]}
    ELSE 1 .. Cardinality({chksum[c] : c \in DOMAIN chksum}) + 1

\* one get_chksums call of the inner loop; it raises on an unreadable file
HashFile ==
    /\ pc = "hashing"
    /\ Len(chksum_calls) < Len(HashList(files_by_size))
    /\ LET path == HashList(files_by_size)[Len(chksum_calls) + 1]
           f == FileAt(path)
       IN /\ chksum_calls' = Append(chksum_calls, path)
          /\ IF ~f.readable
             THEN /\ pc' = "aborted"
                  /\ UNCHANGED <<chksum, files_by_digest>>
             ELSE \E digest \in DigestChoices(f.content) :
                     /\ chksum' = [c \in DOMAIN chksum \cup {f.content} |->
                                      IF c = f.content THEN digest ELSE chksum[c]]
                     /\ files_by_digest' = DictAppend(files_by_digest, digest, path)
                     /\ pc' = pc
    /\ UNCHANGED <<gentoo_repo, listed, mismatched, invalid, unknown, walked,
                   files_by_size, findings>>
    /\ UNCHANGED ev_vars

\* if len(files) > 1
ReportsBucket(files) == Len(files) > 1

\* the results of the loop over files_by_digest.items()
RECURSIVE Duplicates(_)
Duplicates(d) ==
    IF d = <<>> THEN <<>>
    ELSE (IF ReportsBucket(d[1].val)
          THEN <<DuplicateFiles(SortedStrs(d[1].val))>> ELSE <<>>)
         \o Duplicates(Tail(d))

EmitDuplicates ==
    /\ pc = "hashing"
    /\ Len(chksum_calls) = Len(HashList(files_by_size))
    /\ \E o \in {WalkOutcome(Duplicates(files_by_digest), "done", FALSE)}
                \cup {WalkOutcome(SubSeq(Duplicates(files_by_digest), 1, j),
                                  "stopped", FALSE) :
                         j \in 1 .. Len(Duplicates(files_by_digest))} :
          /\ findings' = findings \o o.ys
          /\ pc' = o.pc
    /\ UNCHANGED <<gentoo_repo, listed, mismatched, invalid, unknown, walked,
                   files_by_size, files_by_digest, chksum, chksum_calls>>
    /\ UNCHANGED ev_vars

-----------------------------------------------------------------------------
(* The trees the scans are checked on.  Modes are 0o644 = 420 and          *)
(* 0o755 = 493; contents are <<size, which bytes>>.                        *)

BarEbuild == <<98,97,114,45,49,46,101,98,117,105,108,100>>     \* 'bar-1.ebuild'
FooEbuild == <<102,111,111,45,49,46,101,98,117,105,108,100>>   \* 'foo-1.ebuild'
BadEbuild == <<63,46,101,98,117,105,108,100>>                  \* '?.ebuild'
Manifest == <<77,97,110,105,102,101,115,116>>                  \* 'Manifest'
OddName == <<120,35,32,35>>                                    \* 'x# #'
SubDir == <<102,105,108,101,115,47,115>>                       \* 'files/s'
NameA == <<97>>                                                \* 'a'
NameB == <<98>>                                                \* 'b'
NameOdd == <<99,32,33,32,100>>                                 \* 'c ! d'

\* package directories with many kinds of entries
DirPool ==
    { DirEntry(BarEbuild, FALSE, TRUE, 420, TRUE, TRUE),
      DirEntry(BarEbuild, FALSE, TRUE, 493, FALSE, TRUE),
      DirEntry(BarEbuild, FALSE, FALSE, 493, TRUE, TRUE),
      DirEntry(FooEbuild, FALSE, TRUE, 420, TRUE, TRUE),
      DirEntry(FooEbuild, FALSE, TRUE, 420, TRUE, FALSE),
      DirEntry(FooEbuild, TRUE, FALSE, 493, TRUE, TRUE),
      DirEntry(BadEbuild, FALSE, TRUE, 420, TRUE, TRUE),
      DirEntry(BadEbuild, FALSE, TRUE, 420, FALSE, TRUE),
      DirEntry(BadEbuild, TRUE, TRUE, 493, FALSE, FALSE),
      DirEntry(Manifest, FALSE, TRUE, 420, TRUE, TRUE),
      DirEntry(OddName, FALSE, TRUE, 493, TRUE, TRUE),
      DirEntry(OddName, FALSE, FALSE, 493, TRUE, TRUE),
      DirEntry(OddName, TRUE, TRUE, 493, TRUE, TRUE) }

\* ... with a small files/ subtree
MinorFilePool ==
    { FileEntry(FilesDir, NameA, FALSE, TRUE, 420, <<SizeLimit + 1, 1>>, TRUE),
      FileEntry(FilesDir, NameA, FALSE, TRUE, 420, <<SizeLimit + 1, 1>>, FALSE),
      FileEntry(FilesDir, NameB, FALSE, TRUE, 493, <<SizeLimit + 1, 1>>, TRUE),
      FileEntry(FilesDir, NameOdd, FALSE, TRUE, 420, <<0, 1>>, TRUE),
      FileEntry(FilesDir, NameOdd, FALSE, FALSE, 493, <<SizeLimit + 1, 1>>, TRUE),
      FileEntry(FilesDir, NameOdd, TRUE, TRUE, 493, <<SizeLimit + 1, 1>>, TRUE),
      FileEntry(FilesDir, NameOdd, TRUE, TRUE, 493, <<0, 1>>, TRUE) }

\* files/ subtrees with many kinds of files
FileContents ==
    { <<0, 1>>, <<SizeLimit, 1>>, <<SizeLimit + 1, 1>>, <<SizeLimit + 1, 2>> }

FilePaths == { <<FilesDir, NameB>>, <<FilesDir, NameA>>, <<SubDir, NameA>>,
               <<SubDir, NameB>> }

FilePool ==
    UNION { { FileEntry(p[1], p[2], FALSE, TRUE, 420, c, TRUE) : c \in FileContents }
            \cup { FileEntry(p[1], p[2], TRUE, TRUE, 420, <<SizeLimit + 1, 1>>, TRUE),
                   FileEntry(p[1], p[2], FALSE, FALSE, 420, <<SizeLimit + 1, 1>>, TRUE),
                   FileEntry(p[1], p[2], FALSE, TRUE, 420, <<SizeLimit + 1, 1>>, FALSE) }
            : p \in FilePaths }

\* ... in a small package directory
MinorDirPool ==
    { DirEntry(FooEbuild, FALSE, TRUE, 420, TRUE, TRUE),
      DirEntry(Manifest, FALSE, TRUE, 420, TRUE, TRUE) }

\* files/ subtrees of readable regular files of two sizes
DupContents == { <<1, 1>>, <<1, 2>>, <<2, 1>>, <<2, 2>> }

DupFilePool ==
    { FileEntry(p[1], p[2], FALSE, TRUE, 420, c, TRUE) :
          p \in FilePaths, c \in DupContents }

-----------------------------------------------------------------------------
(* The specifications of PkgDirCheck.feed.                                 *)

EVIdle ==
    /\ ev_pc = "idle"
    /\ pkgset = <<>>
    /\ sorted_pkgset = <<>>
    /\ ev_i = 0
    /\ equal_versions = <<>>
    /\ ev_findings = <<>>

FeedStart ==
    /\ pc = "listing"
    /\ listed = <<>>
    /\ mismatched = <<>>
    /\ invalid = <<>>
    /\ unknown = <<>>
    /\ walked = <<>>
    /\ files_by_size = <<>>
    /\ files_by_digest = <<>>
    /\ chksum = <<>>
    /\ chksum_calls = <<>>
    /\ findings = <<>>

Init ==
    /\ gentoo_repo \in BOOLEAN
    /\ FeedStart
    /\ EVIdle

Next ==
    \/ \E e \in DirPool : ListEntry(e, MaxDirEntries)
    \/ EmitAggregates
    \/ \E f \in MinorFilePool : WalkFile(f, MinorFiles)
    \/ EndWalk
    \/ HashFile
    \/ EmitDuplicates

Spec == Init /\ [][Next]_vars

InitFiles ==
    /\ gentoo_repo = FALSE
    /\ FeedStart
    /\ EVIdle

NextFiles ==
    \/ \E e \in MinorDirPool : ListEntry(e, MinorDirEntries)
    \/ EmitAggregates
    \/ \E f \in FilePool : WalkFile(f, MaxFiles)
    \/ EndWalk
    \/ HashFile
    \/ EmitDuplicates

SpecFiles == InitFiles /\ [][NextFiles]_vars

NextDup ==
    \/ \E e \in MinorDirPool : ListEntry(e, MinorDirEntries)
    \/ EmitAggregates
    \/ \E f \in DupFilePool : WalkFile(f, MaxDupFiles)
    \/ EndWalk
    \/ HashFile
    \/ EmitDuplicates

SpecDup == InitFiles /\ [][NextDup]_vars

-----------------------------------------------------------------------------
(* EqualVersionsCheck.feed.  A package is its literal version string       *)
(* (pkg.fullver); pkg.versioned_atom compares by the parsed version: the   *)
(* numbers of the dotted components, then the revision, which is 0 when    *)
(* the string has no -r suffix.                                            *)

EqualVersions(versions) == Result("EqualVersions", <<>>, <<>>, 0, versions)

RECURSIVE ParseInt(_)
ParseInt(s) ==
    IF s = <<>> THEN 0
    ELSE ParseInt(SubSeq(s, 1, Len(s) - 1)) * 10 + (s[Len(s)] - 48)

\* s.split(sep) for a one-character separator
RECURSIVE Split(_, _)
Split(s, sep) ==
    IF \A i \in DOMAIN s : s[i] # sep THEN <<s>>
    ELSE LET i == CHOOSE k \in DOMAIN s :
                      s[k] = sep /\ \A m \in 1 .. k - 1 : s[m] # sep
         IN <<SubSeq(s, 1, i - 1)>> \o Split(SubSeq(s, i + 1, Len(s)), sep)

\* the parsed version of a literal: its component numbers and its revision
VersionKey(fullver) ==
    LET parts == Split(fullver, 45)                            \* '-'
        comps == Split(parts[1], 46)                           \* '.'
    IN [ver |-> [i \in DOMAIN comps |-> ParseInt(comps[i])],
        rev |-> IF Len(parts) > 1 THEN ParseInt(Tail(parts[2])) ELSE 0]

\* pkg_a.versioned_atom == pkg_b.versioned_atom
AtomEq(a, b) == VersionKey(a) = VersionKey(b)

\* pkg_a < pkg_b
PkgLess(a, b) ==
    \/ StrLess(VersionKey(a).ver, VersionKey(b).ver)
    \/ VersionKey(a).ver = VersionKey(b).ver /\ VersionKey(a).rev < VersionKey(b).rev

RECURSIVE InsertPkg(_, _)
InsertPkg(x, s) ==
    IF s = <<>> THEN <<x>>
    ELSE IF PkgLess(x, s[1]) THEN <<x>> \o s
    ELSE <<s[1]>> \o InsertPkg(x, Tail(s))

UnsortedPkgs(s) == s

\* sorted(pkgset): a stable sort
RECURSIVE SortedPkgs(_)
SortedPkgs(s) ==
    IF s = <<>> THEN <<>>
    ELSE InsertPkg(s[Len(s)], SortedPkgs(SubSeq(s, 1, Len(s) - 1)))

\* sorted(S) for a set of strings
RECURSIVE SortedStrSet(_)
SortedStrSet(S) ==
    IF S = {} THEN <<>>
    ELSE LET m == CHOOSE x \in S : \A y \in S \ {x} : StrLess(x, y)
         IN <<m>> \o SortedStrSet(S \ {m})

\* defaultdict(set): d[key].update(xs)
DictUpdate(d, key, xs) ==
    IF DictHas(d, key)
    THEN [i \in DOMAIN d |->
            IF d[i].key = key THEN [key |-> key, val |-> d[i].val \cup xs]
            ELSE d[i]]
    ELSE Append(d, [key |-> key, val |-> xs])

EVSort ==
    /\ ev_pc = "start"
    /\ sorted_pkgset' = SortedPkgs(pkgset)
    /\ ev_i' = 0
    /\ ev_pc' = "scan"
    /\ UNCHANGED <<pkgset, equal_versions, ev_findings>>
    /\ UNCHANGED pkgdir_vars

\* one iteration of the loop over enumerate(sorted_pkgset)
EVCompare ==
    /\ ev_pc = "scan"
    /\ ev_i < Len(sorted_pkgset)
    /\ IF ev_i + 2 > Len(sorted_pkgset)
       THEN /\ ev_pc' = "yield"
            /\ UNCHANGED <<ev_i, equal_versions>>
       ELSE LET pkg_a == sorted_pkgset[ev_i + 1]
                pkg_b == sorted_pkgset[ev_i + 2]
            IN /\ equal_versions' =
                     IF AtomEq(pkg_a, pkg_b)
                     THEN DictUpdate(equal_versions, VersionKey(pkg_a),
                                     {pkg_a, pkg_b})
                     ELSE equal_versions
               /\ ev_i' = ev_i + 1
               /\ ev_pc' = ev_pc
    /\ UNCHANGED <<pkgset, sorted_pkgset, ev_findings>>
    /\ UNCHANGED pkgdir_vars

\* the loop over equal_versions.items()
EVYield ==
    /\ ev_pc = "yield"
    /\ ev_findings' = [i \in DOMAIN equal_versions |->
                          EqualVersions(SortedStrSet(equal_versions[i].val))]
    /\ ev_pc' = "done"
    /\ UNCHANGED <<pkgset, sorted_pkgset, ev_i, equal_versions>>
    /\ UNCHANGED pkgdir_vars

\* the literal versions of one package's ebuilds
VersionPool ==
    { <<49,46,48>>,                                            \* '1.0'
      <<49,46,48,45,114,48>>,                                  \* '1.0-r0'
      <<49,46,48,48>>,                                         \* '1.00'
      <<49,46,49>>,                                            \* '1.1'
      <<49,46,49,45,114,48,48>>,                               \* '1.1-r00'
      <<49,46,48,45,114,49>>,                                  \* '1.0-r1'
      <<49,48>> }                                              \* '10'

RECURSIVE DistinctSeqs(_, _)
DistinctSeqs(S, n) ==
    IF n = 0 THEN {<<>>}
    ELSE {<<>>} \cup
         UNION { {<<x>> \o t : t \in DistinctSeqs(S \ {x}, n - 1)} : x \in S }

InitEV ==
    /\ pc = "idle"
    /\ gentoo_repo = FALSE
    /\ listed = <<>>
    /\ mismatched = <<>>
    /\ invalid = <<>>
    /\ unknown = <<>>
    /\ walked = <<>>
    /\ files_by_size = <<>>
    /\ files_by_digest = <<>>
    /\ chksum = <<>>
    /\ chksum_calls = <<>>
    /\ findings = <<>>
    /\ pkgset \in DistinctSeqs(VersionPool, MaxPkgs) \ {<<>>}
    /\ ev_pc = "start"
    /\ sorted_pkgset = <<>>
    /\ ev_i = 0
    /\ equal_versions = <<>>
    /\ ev_findings = <<>>

NextEV ==
    \/ EVSort
    \/ EVCompare
    \/ EVYield

SpecEV == InitEV /\ [][NextEV]_vars

-----------------------------------------------------------------------------
(* The vocabulary of the properties.                                       *)

Front(s) == SubSeq(s, 1, Len(s) - 1)

Kinds(ks) == {i \in DOMAIN findings : findings[i].kind \in ks}

\* the results of one kind that name one file
ResultsFor(kind, filename) ==
    {i \in DOMAIN findings :
        findings[i].kind = kind /\ findings[i].filename = filename}

\* the DuplicateFiles results that list a path
DuplicatesOf(path) ==
    {i \in Kinds({"DuplicateFiles"}) : path \in Range(findings[i].names)}

\* the entries whose loop iteration has run to its end: all that were
\* reached, but for the last one when feed raised in it or the consumer
\* stopped draining in it
CompletedListed ==
    IF pc \in {"listing", "walking", "hashing", "done"} \/ walked # <<>>
    THEN listed ELSE Front(listed)

CompletedWalked ==
    IF pc \in {"walking", "hashing", "done", "aborted"}
       \/ Kinds({"DuplicateFiles"}) # {}
    THEN walked ELSE Front(walked)

\* the non-ignored regular files of files/
Checked(files) ==
    {f \in Range(files) : ~f.ignored /\ f.isreg}

\* the files the walk records by size
Recorded == {f \in Checked(CompletedWalked) : st_size(f) > 0}

SameSizeOthers(f) == {g \in Recorded : g # f /\ st_size(g) = st_size(f)}

Calls(path) == {i \in DOMAIN chksum_calls : chksum_calls[i] = path}

IsSortedStrs(s) == \A i, j \in DOMAIN s : i < j => StrLess(s[i], s[j])

IsSortedChars(s) == \A i, j \in DOMAIN s : i < j => s[i] < s[j]

-----------------------------------------------------------------------------
\* C8: every non-ignored regular file of files/ whose iteration completes
\* has exactly one SizeViolation, carrying its byte count, when it is
\* larger than 20480 bytes, and none when it is not; 20480 bytes yield
\* none, 20481 one, whether or not the file is also reported as a duplicate.
C8_SizeViolation ==
    \A f \in Checked(CompletedWalked) :
        LET sv == ResultsFor("SizeViolation", RelPath(f))
        IN /\ st_size(f) > 20480 =>
                /\ Cardinality(sv) = 1
                /\ \A i \in sv : findings[i].size = st_size(f)
           /\ st_size(f) <= 20480 => sv = {}

C8_Witness ==
    /\ pc = "done"
    /\ \E f, g, h \in Checked(walked) :
          /\ st_size(f) = 20480 /\ st_size(g) = 20481 /\ st_size(h) = 20481
          /\ g # h
          /\ DuplicatesOf(RelPath(g)) # {} /\ DuplicatesOf(RelPath(h)) # {}
          /\ ResultsFor("SizeViolation", RelPath(g)) # {}
          /\ ResultsFor("SizeViolation", RelPath(f)) = {}

\* C7: a non-ignored regular file of size 0 in files/ has exactly one
\* EmptyFile and no SizeViolation, is never hashed and is in no
\* DuplicateFiles; no size bucket has key 0 or holds its path.
C7_EmptyFile ==
    /\ \A i \in DOMAIN files_by_size : files_by_size[i].key # 0
    /\ \A f \in Checked(CompletedWalked) :
          st_size(f) = 0 =>
             /\ Cardinality(ResultsFor("EmptyFile", RelPath(f))) = 1
             /\ ResultsFor("SizeViolation", RelPath(f)) = {}
             /\ Calls(RelPath(f)) = {}
             /\ DuplicatesOf(RelPath(f)) = {}
             /\ \A i \in DOMAIN files_by_size :
                   RelPath(f) \notin Range(files_by_size[i].val)
             /\ \A i \in DOMAIN files_by_digest :
                   RelPath(f) \notin Range(files_by_digest[i].val)

C7_Witness ==
    /\ pc = "done"
    /\ \E f, g \in Checked(walked) :
          /\ f # g /\ st_size(f) = 0 /\ st_size(g) = 0
          /\ ResultsFor("EmptyFile", RelPath(f)) # {}
          /\ ResultsFor("EmptyFile", RelPath(g)) # {}

-----------------------------------------------------------------------------
\* the digest get_chksums returned for a path
DigestOf(path) == chksum[FileAt(path).content]

\* the hashed paths that share a digest
DigestGroup(d) == {p \in Range(chksum_calls) : DigestOf(p) = d}

SharedDigests ==
    {d \in {DigestOf(p) : p \in Range(chksum_calls)} :
        Cardinality(DigestGroup(d)) >= 2}

\* get_chksums returned different digests for different contents
CollisionFree ==
    \A c1, c2 \in DOMAIN chksum : chksum[c1] = chksum[c2] => c1 = c2

\* C1: a scan that runs to its end yields exactly one DuplicateFiles per
\* digest that two or more hashed files share, listing exactly their paths
\* (files/ prefix included) in sorted order; byte-identical non-ignored,
\* non-empty regular files are together in one finding; and, digests of
\* different contents being different, a file whose content no other
\* checked file has is in no DuplicateFiles.
C1_DuplicateFiles ==
    pc = "done" =>
       /\ Cardinality(Kinds({"DuplicateFiles"})) = Cardinality(SharedDigests)
       /\ \A d \in SharedDigests :
             \E i \in Kinds({"DuplicateFiles"}) :
                /\ Range(findings[i].names) = DigestGroup(d)
                /\ Len(findings[i].names) = Cardinality(DigestGroup(d))
       /\ \A i \in Kinds({"DuplicateFiles"}) :
             /\ IsSortedStrs(findings[i].names)
             /\ \A k \in DOMAIN findings[i].names :
                   SubSeq(findings[i].names[k], 1, Len(FilesDir) + 1)
                      = FilesDir \o <<47>>
       /\ \A f, g \in Recorded :
             f # g /\ f.content = g.content =>
                \E i \in Kinds({"DuplicateFiles"}) :
                   {RelPath(f), RelPath(g)} \subseteq Range(findings[i].names)
       /\ CollisionFree =>
             \A f \in Range(walked) :
                (\A g \in Recorded : g # f => g.content # f.content)
                   => DuplicatesOf(RelPath(f)) = {}

\* files/b, files/a and a third file of their size but other content
C1_Witness ==
    /\ pc = "done"
    /\ CollisionFree
    /\ \E f, g, h \in Recorded :
          /\ f # g /\ f.content = g.content
          /\ st_size(h) = st_size(f) /\ h.content # f.content
          /\ DuplicatesOf(RelPath(f)) # {}
          /\ DuplicatesOf(RelPath(f)) = DuplicatesOf(RelPath(g))
          /\ DuplicatesOf(RelPath(h)) = {}
          /\ Calls(RelPath(h)) # {}

\* C2: get_chksums is called on a file only if another recorded file has
\* its size, and never twice on one file; in a scan that runs to its end
\* every file whose size another recorded file has is hashed exactly once.
C2_HashOnlyCollisions ==
    /\ \A i \in DOMAIN chksum_calls :
          /\ \E f \in Recorded :
                RelPath(f) = chksum_calls[i] /\ SameSizeOthers(f) # {}
          /\ Cardinality(Calls(chksum_calls[i])) = 1
    /\ \A f \in Recorded : SameSizeOthers(f) = {} => Calls(RelPath(f)) = {}
    /\ pc = "done" =>
          \A f \in Recorded :
             SameSizeOthers(f) # {} => Cardinality(Calls(RelPath(f))) = 1

C2_Witness ==
    /\ pc = "done"
    /\ \E f, g, h \in Recorded :
          /\ f # g /\ st_size(f) = st_size(g)
          /\ SameSizeOthers(h) = {}
          /\ Cardinality(Calls(RelPath(f))) = 1
          /\ Cardinality(Calls(RelPath(g))) = 1
          /\ Calls(RelPath(h)) = {}

\* C10: every path of one digest bucket has the same size and the same
\* digest as every other path of the bucket, whatever get_chksums returns.
C10_BucketOneSize ==
    \A i \in DOMAIN files_by_digest :
       \A p, q \in Range(files_by_digest[i].val) :
          /\ st_size(FileAt(p)) = st_size(FileAt(q))
          /\ DigestOf(p) = DigestOf(q)

-----------------------------------------------------------------------------
NotIgnored(entries) == SelectSeq(entries, LAMBDA e : ~e.ignored)

\* the first loop over a listing, every iteration running to its end
RECURSIVE ListingRun(_)
ListingRun(entries) ==
    IF entries = <<>>
    THEN [ys |-> <<>>, mismatched |-> <<>>, invalid |-> <<>>, unknown |-> <<>>]
    ELSE LET r == ListingRun(Front(entries))
             o == CHOOSE x \in ListEntryOutcomes(entries[Len(entries)]) :
                      x.pc = "listing"
         IN [ys |-> r.ys \o o.ys,
             mismatched |-> r.mismatched \o o.mismatched,
             invalid |-> r.invalid \o o.invalid,
             unknown |-> r.unknown \o o.unknown]

\* the second loop over a walk, every iteration running to its end
RECURSIVE WalkRun(_)
WalkRun(files) ==
    IF files = <<>> THEN [ys |-> <<>>, files_by_size |-> <<>>]
    ELSE LET r == WalkRun(Front(files))
             f == files[Len(files)]
             o == CHOOSE x \in WalkFileOutcomes(f) : x.pc = "walking"
         IN [ys |-> r.ys \o o.ys,
             files_by_size |->
                 IF o.sized
                 THEN DictAppend(r.files_by_size, st_size(f), RelPath(f))
                 ELSE r.files_by_size]

AggregateKinds == {"MismatchedPN", "InvalidPN", "UnknownPkgDirEntry"}

\* C3: an entry gitignored is true of triggers nothing, in the listing and
\* in the walk: no result names it, it is in none of mismatched, invalid
\* and unknown, in no size or digest bucket, and it is never hashed; once
\* both loops have run, the results, the three lists and the size buckets
\* are those of the same tree without the ignored entries.
C3_IgnoredEntries ==
    /\ \A e \in {x \in Range(listed) : x.ignored} :
          /\ \A i \in DOMAIN findings :
                /\ findings[i].filename # e.filename
                /\ findings[i].kind \in AggregateKinds =>
                      /\ e.filename \notin Range(findings[i].names)
                      /\ pkg_name_of(e.filename) \notin Range(findings[i].names)
          /\ {e.filename, pkg_name_of(e.filename)}
                \cap (Range(mismatched) \cup Range(invalid) \cup Range(unknown))
                = {}
    /\ \A f \in {x \in Range(walked) : x.ignored} :
          /\ \A i \in DOMAIN findings : findings[i].filename # RelPath(f)
          /\ DuplicatesOf(RelPath(f)) = {}
          /\ Calls(RelPath(f)) = {}
          /\ \A i \in DOMAIN files_by_size :
                RelPath(f) \notin Range(files_by_size[i].val)
          /\ \A i \in DOMAIN files_by_digest :
                RelPath(f) \notin Range(files_by_digest[i].val)
    /\ pc \in {"hashing", "done"} =>
          LET L == ListingRun(NotIgnored(listed))
              W == WalkRun(NotIgnored(walked))
              ys == L.ys \o Aggregates(L.mismatched, L.invalid, L.unknown) \o W.ys
          IN /\ Len(findings) >= Len(ys)
             /\ SubSeq(findings, 1, Len(ys)) = ys
             /\ \A i \in DOMAIN findings :
                   i > Len(ys) => findings[i].kind = "DuplicateFiles"
             /\ mismatched = L.mismatched
             /\ invalid = L.invalid
             /\ unknown = L.unknown
             /\ files_by_size = W.files_by_size

\* an ignored executable, undecodable '?.ebuild' and an ignored executable
\* 'files/c ! d' among entries that do trigger results
C3_Witness ==
    /\ pc = "done"
    /\ findings # <<>>
    /\ \E e \in Range(listed) :
          /\ e.ignored /\ e.isfile /\ ExecBits(e.mode) /\ ~e.utf8
          /\ banned_chars(e.filename) # {}
          /\ EndsWith(e.filename, ebuild_ext)
    /\ \E f \in Range(walked) :
          /\ f.ignored /\ f.isreg /\ ExecBits(f.mode)
          /\ banned_chars(f.filename) # {}
          /\ st_size(f) > 20480

-----------------------------------------------------------------------------
\* the characters of a name outside ASCII letters, digits and . - _ + :
Offending(name) ==
    {c \in Range(name) :
        ~ \/ c \in 97 .. 122
          \/ c \in 65 .. 90
          \/ c \in 48 .. 57
          \/ c \in {46, 45, 95, 43, 58}}

\* one BannedCharacter for the name, listing its offending characters once
\* each in sorted order, if it has any, and none if it has none
BannedAsOffending(path, name) ==
    LET b == ResultsFor("BannedCharacter", path)
    IN IF Offending(name) = {} THEN b = {}
       ELSE /\ Cardinality(b) = 1
            /\ \A i \in b :
                  /\ Range(findings[i].chars) = Offending(name)
                  /\ IsSortedChars(findings[i].chars)

\* C4 as amended: BannedCharacter is yielded for a non-ignored entry of the
\* package directory, and for a non-ignored regular file of files/, whose
\* iteration completes, if and only if its name has a character outside
\* the allowed set; the result lists exactly the offending characters,
\* once each, sorted.
C4_BannedCharacter ==
    /\ \A e \in Range(NotIgnored(CompletedListed)) :
          BannedAsOffending(e.filename, e.filename)
    /\ \A f \in Checked(CompletedWalked) :
          BannedAsOffending(RelPath(f), f.filename)

\* 'x# #' in the package directory and 'files/c ! d', a regular file
C4_Witness ==
    /\ pc = "done"
    /\ \E e \in Range(NotIgnored(listed)) :
          /\ Cardinality(Offending(e.filename)) = 2
          /\ Cardinality({i \in DOMAIN e.filename :
                             e.filename[i] \in Offending(e.filename)}) = 3
          /\ ResultsFor("BannedCharacter", e.filename) # {}
    /\ \E f \in Checked(walked) :
          /\ Cardinality(Offending(f.filename)) = 2
          /\ Cardinality({i \in DOMAIN f.filename :
                             f.filename[i] \in Offending(f.filename)}) = 3
          /\ ResultsFor("BannedCharacter", RelPath(f)) # {}
    /\ \E e \in Range(NotIgnored(listed)) :
          /\ Offending(e.filename) = {}
          /\ ResultsFor("BannedCharacter", e.filename) = {}

\* C4 as stated: ... and for every non-ignored entry of files/, regular or not
C4_Original ==
    /\ \A e \in Range(NotIgnored(CompletedListed)) :
          BannedAsOffending(e.filename, e.filename)
    /\ \A f \in Range(NotIgnored(CompletedWalked)) :
          BannedAsOffending(RelPath(f), f.filename)

-----------------------------------------------------------------------------
\* C5: a failure confined to one entry never aborts the scan (the package
\* directory of every scan of the model exists and can be listed).
C5_NeverAborts == pc # "aborted"

-----------------------------------------------------------------------------
\* a result of an iteration of the first loop: it names an entry of the listing
OfListing(r) == r.filename \in {listed[k].filename : k \in DOMAIN listed}

\* a result of an iteration of the second loop: it names a walked path
OfWalk(r) == r.filename \in {RelPath(walked[k]) : k \in DOMAIN walked}

C9_Order ==
    /\ \A i, j \in DOMAIN findings :
          i < j =>
             /\ findings[i].kind \in AggregateKinds => ~OfListing(findings[j])
             /\ findings[i].kind = "DuplicateFiles" =>
                   findings[j].kind = "DuplicateFiles"
             /\ findings[i].kind = "DuplicateFiles" => findings[i] # findings[j]
    /\ \A k \in AggregateKinds :
          /\ Cardinality(Kinds({k})) <= 1
          /\ \A i \in Kinds({k}) : findings[i].names # <<>>

C9_Step ==
    /\ Len(findings') >= Len(findings)
    /\ SubSeq(findings', 1, Len(findings)) = findings
    /\ Kinds(AggregateKinds) # {} =>
          /\ listed' = listed
          /\ \A i \in DOMAIN findings' :
                i > Len(findings) => ~OfListing(findings'[i])
    /\ Kinds({"DuplicateFiles"}) # {} =>
          /\ walked' = walked
          /\ chksum_calls' = chksum_calls
          /\ \A i \in DOMAIN findings' :
                i > Len(findings) => ~OfWalk(findings'[i])
    /\ listed' # listed =>
          \A i \in DOMAIN findings' : findings'[i].kind \notin AggregateKinds
    /\ walked' # walked \/ chksum_calls' # chksum_calls =>
          \A i \in DOMAIN findings' : findings'[i].kind # "DuplicateFiles"
    /\ pc \notin {"stopped", "aborted", "done"}

\* C9: the aggregate results of a pass come after every result of the
\* pass's iterations and at most once each: MismatchedPN, InvalidPN and
\* UnknownPkgDirEntry after the last iteration of the listing, and only
\* with a non-empty list; every DuplicateFiles after the last iteration of
\* the walk and the last get_chksums call.  A step that runs an iteration
\* leaves the consumer without the pass's aggregates, and feed takes no
\* step once the consumer has stopped draining.
C9_AggregatesAfterPass == []C9_Order /\ [][C9_Step]_vars

C9_Witness ==
    /\ pc = "done"
    /\ Cardinality(Kinds(AggregateKinds)) >= 2
    /\ Kinds({"DuplicateFiles"}) # {}
    /\ \E i, j \in DOMAIN findings :
          /\ OfListing(findings[i]) /\ findings[j].kind \in AggregateKinds
          /\ i < j
    /\ \E i, j \in DOMAIN findings :
          /\ OfWalk(findings[i]) /\ findings[j].kind = "DuplicateFiles"
          /\ i < j

-----------------------------------------------------------------------------
\* the classes of mutually equal versions of the group with two or more members
EqualClasses ==
    {c \in {{q \in Range(pkgset) : AtomEq(p, q)} : p \in Range(pkgset)} :
        Cardinality(c) >= 2}

\* C6: the sort and the comparison of adjacent pairs give what comparing
\* all pairs gives: one EqualVersions per class of two or more equal
\* versions, listing exactly the literal versions of the class, sorted; no
\* result for a group without equal versions.
C6_EqualVersions ==
    ev_pc = "done" =>
       /\ Len(ev_findings) = Cardinality(EqualClasses)
       /\ \A c \in EqualClasses :
             \E i \in DOMAIN ev_findings :
                /\ ev_findings[i].kind = "EqualVersions"
                /\ Range(ev_findings[i].names) = c
                /\ Len(ev_findings[i].names) = Cardinality(c)
                /\ IsSortedStrs(ev_findings[i].names)

\* two equal versions that are not adjacent in the group as given
C6_Witness ==
    /\ ev_pc = "done"
    /\ Len(pkgset) = 3
    /\ AtomEq(pkgset[1], pkgset[3])
    /\ ~AtomEq(pkgset[1], pkgset[2])
    /\ \E i \in DOMAIN ev_findings :
          Range(ev_findings[i].names) = {pkgset[1], pkgset[3]}

====
